---- MODULE Spec2Model ----
(***************************************************************************)
(* Connect Four solver (pacman82/connect-four-solver).                     *)
(*                                                                         *)
(* A u64 bit mask is modelled as the set of its set bit positions, a       *)
(* subset of 0..63.  Shifts drop the bits that leave the word, addition is *)
(* binary addition modulo 2^64.  Scores are i8 values; arithmetic on them *)
(* wraps to 8 bits and division truncates towards zero as in Rust.        *)
(***************************************************************************)
EXTENDS Integers, Sequences, FiniteSets, TLC

VARIABLES
    game,       \* the ConnectFour value: [last, both]
    accepted,   \* ghost: play calls that returned true since ConnectFour::new()
    extra,      \* ghost: accepted Play actions since the game value was constructed
    op,         \* the operation that produced this state
    col,        \* column argument of the last play call
    ret,        \* return value of the last play call
    table,      \* the transposition table (of the Solver, or the one under test)
    puts,       \* ghost: the put calls made on the table, oldest first
    query,      \* key argument of the last get, or number of score queries so far
    result,     \* result of the last score / get call
    out,        \* the best_moves output vector
    ctl,        \* the Solver::score call in progress or last returned
    stack,      \* the alpha_beta calls in progress, outermost first
    bm,         \* the Solver::best_moves call in progress or last returned
    fresh,      \* the table of the Solver the free function score creates
    free_result, \* result of the last call of the free function score
    book        \* the opening book: the run of precalculate, scores.dat, PRECALCULATED

solver_vars == <<ctl, stack, bm, fresh, free_result>>

vars == <<game, accepted, extra, op, col, ret, table, puts, query, result, out,
          ctl, stack, bm, fresh, free_result, book>>

(***************************************************************************)
(* Bounds of the model                                                     *)
(***************************************************************************)
\* accepted Play actions after a game value has been constructed
MaxPlays == 3

(***************************************************************************)
(* Program constants                                                       *)
(***************************************************************************)
NumColumns == 7
NumRows == 6
NumCells == 42
WordBits == 64

Columns == 0 .. (NumColumns - 1)
Rows == 0 .. (NumRows - 1)
Word == 0 .. (WordBits - 1)

(***************************************************************************)
(* u64 arithmetic on bit sets                                              *)
(***************************************************************************)
Shl(x, s) == {b + s : b \in {c \in x : c + s < WordBits}}
Shr(x, s) == {b - s : b \in {c \in x : c >= s}}
And(x, y) == x \cap y
Or(x, y) == x \cup y
Xor(x, y) == (x \ y) \cup (y \ x)
count_ones(x) == Cardinality(x)

Bit(x, i) == IF i \in x THEN 1 ELSE 0

\* the carry into bit i of x + y: some lower bit generates a carry (both set)
\* and every bit between propagates it (at least one set)
Carry(x, y, i) ==
    IF \E j \in And(x, y) : j < i /\ \A k \in (j + 1) .. (i - 1) : k \in Or(x, y)
    THEN 1 ELSE 0

\* wrapping u64 addition
Add(x, y) == {i \in Word : (Bit(x, i) + Bit(y, i) + Carry(x, y, i)) % 2 = 1}

(***************************************************************************)
(* bitboard.rs                                                             *)
(***************************************************************************)
\* 1u64 << (7 * column + row)
cell(row, column) == Shl({0}, 7 * column + row)

\* const FULL: the six playable rows of each 7 bit group
FULL == {b \in 0 .. 55 : b % 7 # 6}

\* const BOTTOM: one stone at the bottom of each column
BOTTOM == {7 * c : c \in Columns}

is_empty(mask, row, column) == And(cell(row, column), mask) = {}

is_win_mut(m) ==
    LET d1 == And(m, Shr(m, 6))
        h  == And(m, Shr(m, 7))
        d2 == And(m, Shr(m, 8))
        v  == And(m, Shr(m, 1))
    IN  \/ And(d1, Shr(d1, 6)) # {}
        \/ And(h, Shr(h, 7)) # {}
        \/ And(d2, Shr(d2, 8)) # {}
        \/ And(v, Shr(v, 1)) # {}

is_win(m) ==
    LET d1 == And(m, Shr(m, 6))
        h  == And(m, Shr(m, 7))
        d2 == And(m, Shr(m, 8))
        v  == And(m, Shr(m, 1))
    IN  \/ And(d1, Shr(d1, 2 * 6)) # {}
        \/ And(h, Shr(h, 2 * 7)) # {}
        \/ And(d2, Shr(d2, 2 * 8)) # {}
        \/ And(v, Shr(v, 2)) # {}

flip(m, mask) == Xor(m, mask)

key_mut(m, mask) == Or(m, mask)

key(m, mask) == Add(m, mask)

add_left_right_gaps(m, shift) ==
    LET two_to_the_left  == And(Shl(m, shift), Shl(m, 2 * shift))
        two_to_the_right == And(Shr(m, shift), Shr(m, 2 * shift))
    IN  Or(Or(And(two_to_the_left, Shl(m, 3 * shift)),
              And(two_to_the_left, Shr(m, shift))),
           Or(And(two_to_the_right, Shl(m, shift)),
              And(two_to_the_right, Shr(m, 3 * shift))))

winning_positions(m) ==
    LET vertical == And(And(Shl(m, 1), Shl(m, 2)), Shl(m, 3))
    IN  And(Or(Or(vertical, add_left_right_gaps(m, 6 + 1)),
               Or(add_left_right_gaps(m, 6 + 1 + 1),
                  add_left_right_gaps(m, 6 + 1 - 1))),
            FULL)

is_full_mut(mask, column) == ~is_empty(mask, 6, column)

is_full(mask, column) == ~is_empty(mask, 5, column)

insert_mut(mask, column) == Or(mask, cell(0, column))

insert(mask, column) == Or(mask, Add(mask, cell(0, column)))

AllStones_stones(mask) == count_ones(mask)

possible(mask) == And(Add(mask, BOTTOM), FULL)

(***************************************************************************)
(* bitboard.rs: NonLoosingMoves and heuristic, after sections 4.1 and 4.5  *)
(* of the specification                                                    *)
(***************************************************************************)
\* the landing squares the side to move can take without handing the
\* opponent (whose stones are `last`) a win with the reply
NonLoosingMoves_new(last, both) ==
    LET opp_wins == winning_positions(last)
        landings == possible(both)
        forced   == And(opp_wins, landings)
        below    == Shr(opp_wins, 1)
    IN  IF count_ones(forced) >= 2 THEN {}
        ELSE IF count_ones(forced) = 1
             THEN (IF And(forced, below) # {} THEN {} ELSE forced)
             ELSE landings \ below

NonLoosingMoves_contains(nlm, column) ==
    And(nlm, {7 * column + r : r \in Rows}) # {}

NonLoosingMoves_is_empty(nlm) == nlm = {}

\* number of empty squares on which the player owning `last` would complete
\* four in a row
bitboard_heuristic(last, both) == count_ones(winning_positions(last) \ both)

(***************************************************************************)
(* lib.rs: ConnectFour                                                     *)
(***************************************************************************)
new == [last |-> {}, both |-> {}]

\* the position after play(column), whether or not the move was accepted
play_pos(g, column) ==
    IF is_full(g.both, column) THEN g
    ELSE LET both2 == insert(g.both, column)
         IN  [last |-> flip(g.last, both2), both |-> both2]

\* the return value of play(column)
play_ret(g, column) == ~is_full(g.both, column)

is_legal_move(g, column) == ~is_full(g.both, column)

\* the columns 0..7 (exclusive) in iteration order
ColumnRange == <<0, 1, 2, 3, 4, 5, 6>>

legal_moves(g) == SelectSeq(ColumnRange, LAMBDA c : is_legal_move(g, c))

stones(g) == AllStones_stones(g.both)

heuristic(g) == bitboard_heuristic(g.last, g.both)

is_victory(g) == is_win(g.last)

encode(g) == key(g.last, g.both)

can_win_in_next_move_mut(g) ==
    And(possible(g.both), winning_positions(g.last)) # {}

can_win_in_next_move(g) ==
    LET current == flip(g.last, g.both)
    IN  And(possible(g.both), winning_positions(current)) # {}

is_over(g) == stones(g) = 42 \/ is_victory(g)

non_loosing_moves_impl(g) == NonLoosingMoves_new(g.last, g.both)

non_loosing_moves_mut(g) ==
    LET nlm == non_loosing_moves_impl(g)
    IN  SelectSeq(ColumnRange, LAMBDA i : i < 6 /\ NonLoosingMoves_contains(nlm, i))

non_loosing_moves(g) ==
    LET nlm == non_loosing_moves_impl(g)
    IN  SelectSeq(ColumnRange, LAMBDA i : NonLoosingMoves_contains(nlm, i))

\* from_move_list: the bytes '1'..'7' are modelled by their digit values; an
\* illegal move panics
RECURSIVE from_move_list_from(_, _, _)
from_move_list_from(g, move_list, i) ==
    IF i > Len(move_list) THEN [panic |-> FALSE, game |-> g]
    ELSE IF ~play_ret(g, move_list[i] - 1) THEN [panic |-> TRUE, game |-> g]
    ELSE from_move_list_from(play_pos(g, move_list[i] - 1), move_list, i + 1)

from_move_list(move_list) == from_move_list_from(new, move_list, 1)

\* the move lists of the repository's tests
MoveLists ==
    { <<5,6,5,5,6,6,3,6,4,2,4,4,3>>,
      <<5,6,5,5,6,6,3,6,4,2,4,4,2>>,
      <<2,5,3,7,3,3,2,2,7,5,5,4,6,4,4>>,
      <<1,2,3,2,4,2>>,
      <<2,5,3,7,3,3,2,2,7,5,5,4>>,
      <<2,2,5,2,5,7,6,2,5,3,4,6,2,2,4,4,1,1,1,5,6,3,3,6,5,3,4,3,6,7,1,3,5,1,4,4,1>>,
      <<2,2,5,2,5,7,6,2,5,3,4,6,2,2,4,4,1,1,1,5,6,3,3,6,5,3,4,3,6,7,1,3,5,1,4,4,1,6,7>>,
      <<2,2,5,2,5,7,6,2,5,3,4,6,2,2,4,4,1,1,1,5,6,3,3,6,5,3,4,3,6,7,1,3,5,1,4,4,1,6,7,7>> }

\* from_move_list on each of the move lists, evaluated once
Constructed == [move_list \in MoveLists |-> from_move_list(move_list)]

(***************************************************************************)
(* Integers and words                                                      *)
(***************************************************************************)
\* the bits of a natural number below 2^31
ToBits(n) == {i \in 0 .. 30 : (n \div (2 ^ i)) % 2 = 1}

\* the value of a word below 2^8
ByteValue(x) ==
    Bit(x, 0) + 2 * Bit(x, 1) + 4 * Bit(x, 2) + 8 * Bit(x, 3)
    + 16 * Bit(x, 4) + 32 * Bit(x, 5) + 64 * Bit(x, 6) + 128 * Bit(x, 7)

\* x % n for a word x and 0 < n <= 2^24, six bits at a time: R(i) is
\* (x >> i) % n
Mod(x, n) ==
    LET RECURSIVE R(_)
        R(i) == IF i >= WordBits THEN 0
                ELSE (64 * R(i + 6) + ByteValue(And(Shr(x, i), 0 .. 5))) % n
    IN  R(0)

\* an integer wrapped to i8
I8(v) == ((v + 128) % 256) - 128

\* score.to_ne_bytes()[0]: the byte of an i8
I8Byte(v) == (v + 256) % 256

\* i8::from_ne_bytes
I8FromByte(b) == IF b >= 128 THEN b - 256 ELSE b

\* Rust's integer division, truncating towards zero
Div(a, b) == IF a >= 0 THEN a \div b ELSE -((-a) \div b)

\* the elements of a sequence
Range(s) == {s[i] : i \in 1 .. Len(s)}

Max(a, b) == IF a >= b THEN a ELSE b
Min(a, b) == IF a <= b THEN a ELSE b

(***************************************************************************)
(* transposition_table.rs                                                  *)
(***************************************************************************)
\* Option<i8>: Some(s) is <<s>>, None is <<>>
Some(v) == <<v>>
None == <<>>

\* const MASK_BOARD = (1 << 56) - 1
MASK_BOARD == 0 .. 55

\* Entry::new: the little endian bytes of the position with byte 7 replaced by
\* the score
Entry_new(position, value) ==
    Or(And(position, MASK_BOARD), Shl(ToBits(I8Byte(value)), 56))

Entry_EMPTY == Entry_new(MASK_BOARD, 0)

Entry_score(entry) == I8FromByte(ByteValue(Shr(entry, 56)))

Entry_board(entry) == And(entry, MASK_BOARD)

\* vec![Entry::EMPTY; capacity]: the entries that differ from EMPTY are kept
TranspositionTable_new(capacity) == [capacity |-> capacity, entries |-> <<>>]

index(T, board) == Mod(board, T.capacity)

EntryAt(T, i) == IF i \in DOMAIN T.entries THEN T.entries[i] ELSE Entry_EMPTY

put(T, board, value) ==
    LET i == index(T, board)
    IN  [T EXCEPT !.entries =
            [j \in (DOMAIN T.entries) \cup {i} |->
                IF j = i THEN Entry_new(board, value) ELSE T.entries[j]]]

get_mut(T, board) ==
    LET entry == EntryAt(T, index(T, board))
    IN  IF entry # Entry_EMPTY THEN Some(Entry_score(entry)) ELSE None

get(T, board) ==
    LET entry == EntryAt(T, index(T, board))
    IN  IF Entry_board(entry) = board THEN Some(Entry_score(entry)) ELSE None

(***************************************************************************)
(* solver.rs                                                               *)
(***************************************************************************)
\* capacity of the table Solver::new creates
SolverCapacity == 16777213

Solver_new == TranspositionTable_new(SolverCapacity)

\* the remaining stones of both players taken for those of the winner
score_from_num_stones_wide(num_stones) ==
    LET remaining_stones == I8(42 - num_stones)
    IN  I8(-I8(remaining_stones + 1))

\* the score without the stone that wins
score_from_num_stones_mut(num_stones) ==
    LET remaining_stones == Div(I8(42 - num_stones), 2)
    IN  I8(-remaining_stones)

\* the score of a position won with the stone number num_stones, for the player
\* to move
score_from_num_stones(num_stones) ==
    LET remaining_stones == Div(I8(42 - num_stones), 2)
    IN  I8(-I8(remaining_stones + 1))

\* priorities that put the column to the left before the one to the right
COLUMN_PRIORITY_mut == <<5, 3, 1, 0, 2, 4, 6>>

\* COLUMN_PRIORITY of MoveExplorer::sort, indexed from 1
COLUMN_PRIORITY == <<6, 4, 2, 0, 1, 3, 5>>

\* MoveExplorer::add for every column of the non loosing moves, in column
\* order: (column, heuristic, position)
MoveExplorer_add_all(g, possibilities) ==
    LET cols == SelectSeq(ColumnRange, LAMBDA c : NonLoosingMoves_contains(possibilities, c))
    IN  [i \in 1 .. Len(cols) |->
            LET next_position == play_pos(g, cols[i])
            IN  <<cols[i], heuristic(next_position), next_position>>]

\* the comparator of MoveExplorer::sort: a is explored before b
ExploredBefore(a, b) ==
    \/ a[2] > b[2]
    \/ a[2] = b[2] /\ COLUMN_PRIORITY[a[1] + 1] < COLUMN_PRIORITY[b[1] + 1]

MoveExplorer_sort(col_indices) ==
    [i \in 1 .. Len(col_indices) |->
        CHOOSE a \in Range(col_indices) :
            Cardinality({b \in Range(col_indices) : ExploredBefore(b, a)}) = i - 1]

\* A call of alpha_beta in progress is a frame of the call stack:
\*   pc         "enter" (called, body not yet run), "loop" (in the loop over
\*              the positions) or "return" (returning value)
\*   alpha0, beta0   the arguments of the call
\*   alpha, beta     the local variables
\*   positions  move_explorer.next_positions(), i the index of the next one
Frame(g, alpha, beta) ==
    [pc |-> "enter", game |-> g, alpha0 |-> alpha, beta0 |-> beta,
     alpha |-> alpha, beta |-> beta, positions |-> <<>>, i |-> 1, value |-> 0]

Returning(f, v) == [f EXCEPT !.pc = "return", !.value = v]

\* the saved bound taken for one that the score stays below
upper_bound_beta_mut(g, cached_beta) ==
    LET cached == get(cached_beta, encode(g))
    IN  IF cached # None THEN I8(cached[1] - 1)
        ELSE I8(-score_from_num_stones(I8(stones(g) + 3)))

\* the upper bound of the score alpha_beta finds in the table, or else gets
\* from the number of stones
upper_bound_beta(g, cached_beta) ==
    LET cached == get(cached_beta, encode(g))
    IN  IF cached # None THEN cached[1]
        ELSE I8(-score_from_num_stones(I8(stones(g) + 3)))

\* alpha_beta returning the beta of its caller where the upper bound closes
\* the window
alpha_beta_enter_mut(f, cached_beta) ==
    LET g == f.game
        possibilities == non_loosing_moves_impl(g)
        alpha == Max(f.alpha0, score_from_num_stones(I8(stones(g) + 4)))
        beta == Min(f.beta0, upper_bound_beta(g, cached_beta))
    IN  IF NonLoosingMoves_is_empty(possibilities)
        THEN Returning(f, score_from_num_stones(I8(stones(g) + 2)))
        ELSE IF stones(g) >= 42 - 2
        THEN Returning(f, 0)
        ELSE IF alpha >= f.beta0
        THEN Returning([f EXCEPT !.alpha = alpha], alpha)
        ELSE IF alpha >= beta
        THEN Returning([f EXCEPT !.alpha = alpha, !.beta = beta], f.beta0)
        ELSE [f EXCEPT !.pc = "loop", !.alpha = alpha, !.beta = beta,
                       !.positions = MoveExplorer_sort(MoveExplorer_add_all(g, possibilities)),
                       !.i = 1]

\* alpha_beta from its entry to the loop over the positions, or to an early
\* return
alpha_beta_enter(f, cached_beta) ==
    LET g == f.game
        possibilities == non_loosing_moves_impl(g)
        alpha == Max(f.alpha0, score_from_num_stones(I8(stones(g) + 4)))
        beta == Min(f.beta0, upper_bound_beta(g, cached_beta))
    IN  IF NonLoosingMoves_is_empty(possibilities)
        THEN Returning(f, score_from_num_stones(I8(stones(g) + 2)))
        ELSE IF stones(g) >= 42 - 2
        THEN Returning(f, 0)
        ELSE IF alpha >= f.beta0
        THEN Returning([f EXCEPT !.alpha = alpha], alpha)
        ELSE IF alpha >= beta
        THEN Returning([f EXCEPT !.alpha = alpha, !.beta = beta], beta)
        ELSE [f EXCEPT !.pc = "loop", !.alpha = alpha, !.beta = beta,
                       !.positions = MoveExplorer_sort(MoveExplorer_add_all(g, possibilities)),
                       !.i = 1]

\* the loop of alpha_beta taking the score of the opponent for its own
alpha_beta_resume_mut(f, v) ==
    LET child == v
    IN  IF child >= f.beta
        THEN Returning(f, child)
        ELSE [f EXCEPT !.alpha = Max(f.alpha, child), !.i = f.i + 1]

\* the loop of alpha_beta after a position returned value v: the frame goes on
\* with the next position or returns
alpha_beta_resume(f, v) ==
    LET child == I8(-v)
    IN  IF child >= f.beta
        THEN Returning(f, child)
        ELSE [f EXCEPT !.alpha = Max(f.alpha, child), !.i = f.i + 1]

\* precalculated.rs
NUM_STONES_PRECALCULATED_UP_TO == 5

\* precalculated_score is Some for a board below the limit; scores.dat is not
\* part of the model and the solver is asked about the other boards only
has_precalculated_score(board) == stones(board) < NUM_STONES_PRECALCULATED_UP_TO

\* the bounds score_without_precalculated starts the iterative deepening with
initial_min(g) == Div(I8(-I8(42 - stones(g))), 2)
initial_max(g) == Div(I8(42 + 1 - stones(g)), 2)

\* the median taken from the upper end of the interval
next_alpha_mut(min, max) ==
    LET median == I8(max - Div(I8(max - min), 2))
    IN  IF median <= 0 /\ Div(min, 2) < median THEN Div(min, 2)
        ELSE IF median >= 0 /\ Div(max, 2) > median THEN Div(max, 2)
        ELSE median

\* the alpha of the next null window
next_alpha(min, max) ==
    LET median == I8(min + Div(I8(max - min), 2))
    IN  IF median <= 0 /\ Div(min, 2) < median THEN Div(min, 2)
        ELSE IF median >= 0 /\ Div(max, 2) > median THEN Div(max, 2)
        ELSE median

(***************************************************************************)
(* The game: ConnectFour::new, from_move_list and play                     *)
(***************************************************************************)
NoTable == TranspositionTable_new(0)

\* no call of the solver has been made
NoCall ==
    [pc |-> "idle", pos |-> new, min |-> 0, max |-> 0, alpha |-> 0, value |-> 0,
     free |-> FALSE, nodes |-> 0, reused_nodes |-> 0]

NoBestMoves == [pc |-> "idle", moves |-> <<>>, i |-> 1, min |-> 127, before |-> <<>>]

\* precalculate has not run
NoBook ==
    [pc |-> "idle", num_stones |-> 0, unique_boards |-> <<>>, scores |-> <<>>,
     file |-> <<>>, PRECALCULATED |-> <<>>]

NoSolver ==
    /\ ctl = NoCall
    /\ stack = <<>>
    /\ bm = NoBestMoves
    /\ fresh = NoTable
    /\ free_result = 0

Init ==
    /\ game = new
    /\ accepted = 0
    /\ extra = 0
    /\ op = "new"
    /\ col = 0
    /\ ret = TRUE
    /\ table = NoTable
    /\ puts = <<>>
    /\ query = 0
    /\ result = 0
    /\ out = <<>>
    /\ NoSolver
    /\ book = NoBook

FromMoveList(move_list) ==
    /\ ~Constructed[move_list].panic
    /\ game' = Constructed[move_list].game
    /\ accepted' = Len(move_list)
    /\ extra' = 0
    /\ op' = "from_move_list"
    /\ col' = move_list[Len(move_list)] - 1
    /\ ret' = TRUE
    /\ UNCHANGED <<table, puts, query, result, out>>
    /\ UNCHANGED solver_vars
    /\ UNCHANGED book

Play(column) ==
    /\ extra < MaxPlays
    /\ game' = play_pos(game, column)
    /\ ret' = play_ret(game, column)
    /\ accepted' = IF ret' THEN accepted + 1 ELSE accepted
    /\ extra' = IF ret' THEN extra + 1 ELSE extra
    /\ op' = "play"
    /\ col' = column
    /\ UNCHANGED <<table, puts, query, result, out>>
    /\ UNCHANGED solver_vars
    /\ UNCHANGED book

Next ==
    \/ \E move_list \in MoveLists : FromMoveList(move_list)
    \/ \E column \in Columns : Play(column)

Spec == Init /\ [][Next]_vars

(***************************************************************************)
(* The transposition table on its own: new, put and get                    *)
(***************************************************************************)
\* put calls made on one table
MaxPuts == 3

\* the capacity of the table tests and the one Solver::new uses
TableCapacities == {1024, 16777213}

\* the keys of the positions of the table tests
TestKeys ==
    {encode(Constructed[m].game) :
        m \in {<<5,6,5,5,6,6,3,6,4,2,4,4,3>>, <<5,6,5,5,6,6,3,6,4,2,4,4,2>>}}

\* those keys, and for each the key one capacity further: the same index
KeysFor == [capacity \in TableCapacities |->
               TestKeys \cup {Add(k, ToBits(capacity)) : k \in TestKeys}]

TableKeys(capacity) == KeysFor[capacity]

TableScores == {-12, 18}

InitTable ==
    /\ \E capacity \in TableCapacities : table = TranspositionTable_new(capacity)
    /\ puts = <<>>
    /\ op = "new"
    /\ query = {}
    /\ result = None
    /\ game = new
    /\ accepted = 0
    /\ extra = 0
    /\ col = 0
    /\ ret = TRUE
    /\ out = <<>>
    /\ NoSolver
    /\ book = NoBook

Put(board, value) ==
    /\ Len(puts) < MaxPuts
    /\ table' = put(table, board, value)
    /\ puts' = Append(puts, [board |-> board, score |-> value])
    /\ op' = "put"
    /\ query' = {}
    /\ result' = None
    /\ UNCHANGED <<game, accepted, extra, col, ret, out>>
    /\ UNCHANGED solver_vars
    /\ UNCHANGED book

Get(board) ==
    /\ result' = get(table, board)
    /\ query' = board
    /\ op' = "get"
    /\ UNCHANGED <<game, accepted, extra, col, ret, table, puts, out>>
    /\ UNCHANGED solver_vars
    /\ UNCHANGED book

NextTable ==
    \/ \E board \in TableKeys(table.capacity) : \E value \in TableScores : Put(board, value)
    \/ \E board \in TableKeys(table.capacity) : Get(board)

SpecTable == InitTable /\ [][NextTable]_vars

(***************************************************************************)
(* The solver: one Solver reused for score and best_moves queries on a     *)
(* game that is played on, and the free function score.  A call runs in    *)
(* steps: ctl is the position of Solver::score, stack the alpha_beta calls *)
(* in progress, bm the position of Solver::best_moves.                     *)
(***************************************************************************)
\* score and best_moves queries made to the solver
MaxQueries == 2

\* stones played after the game has been set up
MaxSolverPlays == 1

\* the games the solver is asked about first, all close to their end: one with
\* 35 stones and score 0, the one of the test score_depth_four_victory, with
\* 37 stones and score -1, and one with 35 stones and score 2
SolverMoveLists ==
    {<<2,3,5,1,6,3,5,4,4,5,2,5,7,4,4,1,5,3,3,4,5,3,4,3,2,2,1,6,7,1,2,1,6,7,1>>,
     <<2,2,5,2,5,7,6,2,5,3,4,6,2,2,4,4,1,1,1,5,6,3,3,6,5,3,4,3,6,7,1,3,5,1,4,4,1>>,
     <<2,2,4,6,7,7,4,4,2,2,4,3,6,3,3,3,2,2,7,7,7,5,1,3,4,6,6,6,7,3,1,4,1,1,5>>}

SolverGames == {from_move_list(move_list).game : move_list \in SolverMoveLists}

\* Solver::score going into the iterative deepening without the check for a
\* win with the next stone
score_begin_mut(pos, free) ==
    LET call == [NoCall EXCEPT !.pos = pos, !.free = free, !.reused_nodes = ctl.reused_nodes]
    IN  IF is_victory(pos)
        THEN [call EXCEPT !.pc = "return", !.value = score_from_num_stones(I8(stones(pos)))]
        ELSE [call EXCEPT !.pc = "bisect", !.min = initial_min(pos), !.max = initial_max(pos)]

\* Solver::score from its entry to the iterative deepening, or to the return
\* of a won or lost position
score_begin(pos, free) ==
    LET call == [NoCall EXCEPT !.pos = pos, !.free = free, !.reused_nodes = ctl.reused_nodes]
    IN  IF is_victory(pos)
        THEN [call EXCEPT !.pc = "return", !.value = score_from_num_stones(I8(stones(pos)))]
        ELSE IF can_win_in_next_move(pos)
        THEN [call EXCEPT !.pc = "return",
                          !.value = I8(-score_from_num_stones(I8(stones(pos) + 1)))]
        ELSE [call EXCEPT !.pc = "bisect", !.min = initial_min(pos), !.max = initial_max(pos)]

\* the loop body of best_moves for a column whose position has the score value
best_moves_take_mut(best_moves, min, column, value) ==
    IF value < min THEN Append(best_moves, column)
    ELSE IF value = min THEN Append(best_moves, column)
    ELSE best_moves

best_moves_take(best_moves, min, column, value) ==
    IF value < min THEN <<column>>
    ELSE IF value = min THEN Append(best_moves, column)
    ELSE best_moves

\* the table the running call works on
ActiveTable == IF ctl.free THEN fresh ELSE table

Top == stack[Len(stack)]

ReplaceTop(f) == [stack EXCEPT ![Len(stack)] = f]

\* no call is running
Idle == ctl.pc \in {"idle", "done"} /\ bm.pc = "idle"

InitSolver ==
    /\ game \in SolverGames
    /\ accepted = stones(game)
    /\ extra = 0
    /\ op = "new"
    /\ col = 0
    /\ ret = TRUE
    /\ table = Solver_new
    /\ puts = <<>>
    /\ query = 0
    /\ result = 0
    /\ out = <<>>
    /\ NoSolver
    /\ book = NoBook

\* the caller plays a stone between two queries
SolverPlay(column) ==
    /\ Idle
    /\ ~is_over(game)
    /\ extra < MaxSolverPlays
    /\ is_legal_move(game, column)
    /\ game' = play_pos(game, column)
    /\ ret' = play_ret(game, column)
    /\ accepted' = accepted + 1
    /\ extra' = extra + 1
    /\ op' = "play"
    /\ col' = column
    /\ UNCHANGED <<table, puts, query, result, out>>
    /\ UNCHANGED solver_vars
    /\ UNCHANGED book

\* solver.score(&game) is called
Score ==
    /\ Idle
    /\ query < MaxQueries
    /\ ~has_precalculated_score(game)
    /\ ctl' = score_begin(game, FALSE)
    /\ query' = query + 1
    /\ op' = "call"
    /\ UNCHANGED <<game, accepted, extra, col, ret, table, puts, result, out,
                   stack, bm, fresh, free_result>>
    /\ UNCHANGED book

\* score(&position) is called for the position the solver has just scored
FreeScore ==
    /\ Idle
    /\ op = "score"
    /\ ctl' = [score_begin(ctl.pos, TRUE) EXCEPT !.reused_nodes = ctl.nodes]
    /\ fresh' = Solver_new
    /\ op' = "call"
    /\ UNCHANGED <<game, accepted, extra, col, ret, table, puts, query, result, out,
                   stack, bm, free_result>>
    /\ UNCHANGED book

\* one turn of the iterative deepening: the next null window, or the end
Bisect ==
    /\ ctl.pc = "bisect"
    /\ IF ctl.min < ctl.max
       THEN LET alpha == next_alpha(ctl.min, ctl.max)
            IN  /\ ctl' = [ctl EXCEPT !.pc = "probe", !.alpha = alpha]
                /\ stack' = <<Frame(ctl.pos, alpha, I8(alpha + 1))>>
       ELSE /\ ctl' = [ctl EXCEPT !.pc = "return", !.value = ctl.min]
            /\ stack' = stack
    /\ UNCHANGED <<game, accepted, extra, op, col, ret, table, puts, query, result, out,
                   bm, fresh, free_result>>
    /\ UNCHANGED book

\* alpha_beta has returned to the iterative deepening
Probed ==
    /\ ctl.pc = "probe"
    /\ Len(stack) = 1
    /\ Top.pc = "return"
    /\ ctl' = IF Top.value <= ctl.alpha
              THEN [ctl EXCEPT !.pc = "bisect", !.max = Top.value]
              ELSE [ctl EXCEPT !.pc = "bisect", !.min = Top.value]
    /\ stack' = <<>>
    /\ UNCHANGED <<game, accepted, extra, op, col, ret, table, puts, query, result, out,
                   bm, fresh, free_result>>
    /\ UNCHANGED book

\* a call of alpha_beta runs up to its loop or returns early
Enter ==
    /\ stack # <<>>
    /\ Top.pc = "enter"
    /\ stack' = ReplaceTop(alpha_beta_enter(Top, ActiveTable))
    /\ ctl' = [ctl EXCEPT !.nodes = ctl.nodes + 1]
    /\ UNCHANGED <<game, accepted, extra, op, col, ret, table, puts, query, result, out,
                   bm, fresh, free_result>>
    /\ UNCHANGED book

\* the loop of alpha_beta calls alpha_beta for the next position
Descend ==
    /\ stack # <<>>
    /\ Top.pc = "loop"
    /\ Top.i <= Len(Top.positions)
    /\ stack' = Append(stack, Frame(Top.positions[Top.i][3], I8(-Top.beta), I8(-Top.alpha)))
    /\ UNCHANGED <<game, accepted, extra, op, col, ret, table, puts, query, result, out,
                   ctl, bm, fresh, free_result>>
    /\ UNCHANGED book

\* the loop of alpha_beta is through: the bound is saved as the opponent
\* sees it
Store_mut ==
    /\ stack # <<>>
    /\ Top.pc = "loop"
    /\ Top.i > Len(Top.positions)
    /\ IF ctl.free
       THEN fresh' = put(fresh, encode(Top.game), I8(-Top.alpha)) /\ table' = table
       ELSE table' = put(table, encode(Top.game), I8(-Top.alpha)) /\ fresh' = fresh
    /\ stack' = ReplaceTop(Returning(Top, Top.alpha))
    /\ UNCHANGED <<game, accepted, extra, op, col, ret, puts, query, result, out,
                   ctl, bm, free_result>>
    /\ UNCHANGED book

\* the loop of alpha_beta is through: the upper bound is saved and returned
Store ==
    /\ stack # <<>>
    /\ Top.pc = "loop"
    /\ Top.i > Len(Top.positions)
    /\ IF ctl.free
       THEN fresh' = put(fresh, encode(Top.game), Top.alpha) /\ table' = table
       ELSE table' = put(table, encode(Top.game), Top.alpha) /\ fresh' = fresh
    /\ stack' = ReplaceTop(Returning(Top, Top.alpha))
    /\ UNCHANGED <<game, accepted, extra, op, col, ret, puts, query, result, out,
                   ctl, bm, free_result>>
    /\ UNCHANGED book

\* alpha_beta returns to the loop of the alpha_beta that called it
Return ==
    /\ Len(stack) >= 2
    /\ Top.pc = "return"
    /\ stack' = [i \in 1 .. (Len(stack) - 1) |->
                    IF i = Len(stack) - 1
                    THEN alpha_beta_resume(stack[i], Top.value)
                    ELSE stack[i]]
    /\ UNCHANGED <<game, accepted, extra, op, col, ret, table, puts, query, result, out,
                   ctl, bm, fresh, free_result>>
    /\ UNCHANGED book

\* Solver::score, or the free function score, returns
ScoreReturn ==
    /\ ctl.pc = "return"
    /\ ctl' = [ctl EXCEPT !.pc = "done"]
    /\ IF ctl.free
       THEN /\ free_result' = ctl.value
            /\ fresh' = NoTable
            /\ op' = "free_score"
            /\ result' = result
       ELSE /\ result' = ctl.value
            /\ op' = "score"
            /\ UNCHANGED <<fresh, free_result>>
    /\ UNCHANGED <<game, accepted, extra, col, ret, table, puts, query, out, stack, bm>>
    /\ UNCHANGED book

\* solver.best_moves(&game, &mut best_moves) is called, with the vector of the
\* call before or with a new one
BestMoves(reuse) ==
    /\ Idle
    /\ query < MaxQueries
    /\ stones(game) + 1 >= NUM_STONES_PRECALCULATED_UP_TO
    /\ query' = query + 1
    /\ out' = IF reuse THEN out ELSE <<>>
    /\ IF is_over(game)
       THEN /\ op' = "best_moves"
            /\ bm' = [NoBestMoves EXCEPT !.before = out']
       ELSE /\ op' = "call"
            /\ bm' = [NoBestMoves EXCEPT !.pc = "loop", !.moves = legal_moves(game),
                                         !.before = out']
    /\ UNCHANGED <<game, accepted, extra, col, ret, table, puts, result,
                   ctl, stack, fresh, free_result>>
    /\ UNCHANGED book

\* the loop of best_moves calls score for the next legal move, or is through
BestMovesNext ==
    /\ bm.pc = "loop"
    /\ IF bm.i <= Len(bm.moves)
       THEN /\ bm' = [bm EXCEPT !.pc = "scoring"]
            /\ ctl' = score_begin(play_pos(game, bm.moves[bm.i]), FALSE)
            /\ op' = "call"
       ELSE /\ bm' = [bm EXCEPT !.pc = "idle"]
            /\ ctl' = ctl
            /\ op' = "best_moves"
    /\ UNCHANGED <<game, accepted, extra, col, ret, table, puts, query, result, out,
                   stack, fresh, free_result>>
    /\ UNCHANGED book

\* the loop of best_moves compares the score with the minimum so far
BestMovesTake ==
    /\ bm.pc = "scoring"
    /\ ctl.pc = "done"
    /\ out' = best_moves_take(out, bm.min, bm.moves[bm.i], result)
    /\ bm' = [bm EXCEPT !.pc = "loop", !.i = bm.i + 1, !.min = Min(bm.min, result)]
    /\ op' = "call"
    /\ UNCHANGED <<game, accepted, extra, col, ret, table, puts, query, result,
                   ctl, stack, fresh, free_result>>
    /\ UNCHANGED book

NextSolver ==
    \/ \E column \in Columns : SolverPlay(column)
    \/ Score
    \/ FreeScore
    \/ \E reuse \in BOOLEAN : BestMoves(reuse)
    \/ BestMovesNext
    \/ BestMovesTake
    \/ Bisect
    \/ Probed
    \/ Enter
    \/ Descend
    \/ Store
    \/ Return
    \/ ScoreReturn

SpecSolver == InitSolver /\ [][NextSolver]_vars

(***************************************************************************)
(* The 7x6 grid, as the rules of the game see it                           *)
(***************************************************************************)
\* number of stones in a column
Height(g, c) == Cardinality({r \in Rows : (7 * c + r) \in g.both})

\* the cells of the grid a mask holds, as <<column, row>> pairs
GridCells(m) == {cr \in Columns \X Rows : (7 * cr[1] + cr[2]) \in m}

\* the four directions of a line: row, column, rising and falling diagonal
Directions == {<<1, 0>>, <<0, 1>>, <<1, 1>>, <<1, -1>>}

\* four consecutive cells of the grid in one line, all in the set of cells
HasFour(cells) ==
    \E cr \in cells : \E d \in Directions :
        \A i \in 1 .. 3 : <<cr[1] + i * d[1], cr[2] + i * d[2]>> \in cells

\* no player has four in a row
NoFour(g) ==
    /\ ~HasFour(GridCells(g.last))
    /\ ~HasFour(GridCells(g.both \ g.last))

\* a sequence of columns is strictly ascending
Ascending(s) == \A i \in 1 .. (Len(s) - 1) : s[i] < s[i + 1]


(***************************************************************************)
(* Claims about the position                                               *)
(***************************************************************************)
\* C3: play(c) returns false iff column c already holds six stones and then
\* leaves both masks unchanged; otherwise it returns true and adds exactly one
\* stone, in the lowest empty cell of column c, owned by the player who was to
\* move, every other cell unchanged.
C3_PlayContract ==
    [][op' = "play" =>
        LET h == Height(game, col')
            stone == 7 * col' + h
        IN  IF h = 6
            THEN ret' = FALSE /\ game' = game
            ELSE /\ ret' = TRUE
                 /\ game'.both = game.both \cup {stone}
                 /\ stone \notin game.both
                 /\ game'.last = (game.both \ game.last) \cup {stone}]_vars

\* a play call on a column holding six stones has been rejected
C3_Witness == op = "play" /\ ~ret /\ Height(game, col) = 6 /\ extra > 0

\* C4: after any sequence of play calls the position is well formed: last is a
\* subset of both, the sentinel bits and all bits above 48 are zero in both
\* masks, columns are filled contiguously from the bottom, and stones() is the
\* number of play calls that returned true and at most 42.
C4_WellFormed ==
    /\ game.last \subseteq game.both
    /\ \A b \in game.both \cup game.last : b < 48 /\ b % 7 # 6
    /\ \A c \in Columns : \A r \in 1 .. 5 :
          (7 * c + r) \in game.both => (7 * c + r - 1) \in game.both
    /\ stones(game) = accepted
    /\ stones(game) <= 42

\* the board is full after accepted and rejected play calls
C4_Witness == stones(game) = 42 /\ op = "play" /\ ~ret

\* the column heights and the last mover's stones read back from a key: the
\* seven bit group of a column holds 2^h - 1 + last, and last < 2^h
GroupValue(k, c) ==
    Bit(k, 7 * c) + 2 * Bit(k, 7 * c + 1) + 4 * Bit(k, 7 * c + 2) + 8 * Bit(k, 7 * c + 3)
    + 16 * Bit(k, 7 * c + 4) + 32 * Bit(k, 7 * c + 5) + 64 * Bit(k, 7 * c + 6)

DecodeHeight(k, c) == CHOOSE h \in 0 .. 6 : 2 ^ h <= GroupValue(k, c) + 1 /\ GroupValue(k, c) + 1 < 2 ^ (h + 1)

Decode(k) ==
    [last |-> {b \in 0 .. 47 :
                 LET c == b \div 7
                     r == b % 7
                     v == GroupValue(k, c) - (2 ^ DecodeHeight(k, c) - 1)
                 IN  (v \div (2 ^ r)) % 2 = 1},
     both |-> {b \in 0 .. 47 : b % 7 < DecodeHeight(k, b \div 7)}]

\* positions reachable by play, to compare keys with: the constructed
\* positions and their successors
KeyPool ==
    UNION {{Constructed[m].game} \cup {play_pos(Constructed[m].game, c) : c \in Columns}
           : m \in MoveLists}

PoolKeys == [q \in KeyPool |-> encode(q)]

\* C5: encode() is injective over positions reachable by play (the position
\* can be read back from its key, and no other reachable position has the
\* key), and every key is smaller than 2^49.
C5_EncodeInjective ==
    LET k == encode(game)
    IN  /\ Decode(k) = game
        /\ \A q \in KeyPool : q # game => PoolKeys[q] # k
        /\ \A b \in k : b < 49

\* the key lights up a sentinel bit, and another reachable position has the
\* same occupancy with other owners
C5_Witness ==
    /\ \E b \in encode(game) : b % 7 = 6
    /\ \E q \in KeyPool : q.both = game.both /\ q.last # game.last

\* C6: is_victory() is true iff the stones of the player who placed the last
\* stone hold four consecutive cells of the 7x6 grid in a row, a column or a
\* diagonal; a line that wraps from one column into the next is not reported.
C6_VictoryIffFour == is_victory(game) <=> HasFour(GridCells(game.last))

\* the last mover owns four cells that follow each other from the top of one
\* column into the bottom of the next, and has no four in a row
C6_Witness ==
    /\ ~is_victory(game)
    /\ \E c \in 0 .. 5 : \E r \in 3 .. 5 :
          \A i \in 0 .. 3 :
              LET n == 6 * c + r + i
              IN  (7 * (n \div 6) + (n % 6)) \in game.last

\* C7: with no four in a row on the board, can_win_in_next_move() is true iff
\* some non-full column c gives a position with is_victory() after play(c).
C7_CanWinIffWinningMove ==
    NoFour(game) =>
        (can_win_in_next_move(game) <=>
            \E c \in Columns : play_ret(game, c) /\ is_victory(play_pos(game, c)))

\* the side to move has a winning stone, and a column that does not win
C7_Witness ==
    /\ NoFour(game)
    /\ can_win_in_next_move(game)
    /\ \E c \in Columns : play_ret(game, c) /\ ~is_victory(play_pos(game, c))

\* C8: on a position that is not won and has no winning move,
\* non_loosing_moves() yields in ascending order exactly the non-full columns
\* after which the opponent cannot complete four with the immediate reply.
C8_NonLoosingMoves ==
    (NoFour(game) /\ ~can_win_in_next_move(game)) =>
        /\ Ascending(non_loosing_moves(game))
        /\ Range(non_loosing_moves(game)) =
              {c \in Columns : play_ret(game, c)
                               /\ ~can_win_in_next_move(play_pos(game, c))}

\* some legal columns lose to the reply and some do not
C8_Witness ==
    /\ NoFour(game)
    /\ ~can_win_in_next_move(game)
    /\ non_loosing_moves(game) # <<>>
    /\ Len(non_loosing_moves(game)) < Len(legal_moves(game))

(***************************************************************************)
(* Claims about the transposition table                                    *)
(***************************************************************************)
\* the put calls whose key is congruent to k modulo the capacity
Congruent(k) ==
    {i \in 1 .. Len(puts) : Mod(puts[i].board, table.capacity) = Mod(k, table.capacity)}

\* what get(k) has to return after the put calls made so far
Expected(k) ==
    IF Congruent(k) = {} THEN None
    ELSE LET i == CHOOSE j \in Congruent(k) : \A l \in Congruent(k) : l <= j
         IN  IF puts[i].board = k THEN Some(puts[i].score) ELSE None

\* C9: get(k) returns Some(s) iff the most recent put whose key is congruent
\* to k modulo the capacity was put(k, s), and None otherwise; a fresh table
\* returns None for every key.
C9_GetAfterPuts == op = "get" => result = Expected(query)

\* get returned None for a key that was put: a later put of another key with
\* the same index evicted it
C9_Witness ==
    /\ op = "get"
    /\ result = None
    /\ \E i \in 1 .. Len(puts) : puts[i].board = query
    /\ \E i \in Congruent(query) : puts[i].board # query

(***************************************************************************)
(* Claims about the solver                                                 *)
(***************************************************************************)
\* the smallest element of a non empty set of integers
MinOf(S) == CHOOSE v \in S : \A w \in S : v <= w

\* the value of a position under perfect play, by the rules of the game and
\* without any pruning
RECURSIVE Minimax(_)
Minimax(p) ==
    IF HasFour(GridCells(p.last)) THEN -((42 - Cardinality(p.both)) \div 2 + 1)
    ELSE IF Cardinality(p.both) = 42 THEN 0
    ELSE -MinOf({Minimax(play_pos(p, m)) : m \in {c \in Columns : Height(p, c) < 6}})

\* the positions that follow a set of positions that are not over
Successors(S) ==
    UNION {{play_pos(p, m) : m \in {c \in Columns : Height(p, c) < 6}} :
           p \in {q \in S : ~is_over(q)}}

RECURSIVE ReachableIn(_, _)
ReachableIn(S, n) == IF n = 0 THEN S ELSE ReachableIn(S \cup Successors(S), n - 1)

\* the positions the solver can be asked to score: the games, the positions
\* played to, and the positions best_moves scores
SolverPool == ReachableIn(SolverGames, MaxSolverPlays + 1)

PerfectPlay == [p \in SolverPool |-> Minimax(p)]

\* C1: for a position with at least 5 stones reached by legal play,
\* Solver::score returns the exact perfect-play value: -((42 - stones)/2 + 1)
\* if the last mover has four in a row, 0 on a full board, and otherwise minus
\* the minimum of the scores of the positions after the legal moves.
C1_ScoreIsPerfectPlay ==
    (ctl.pc = "done" /\ ~ctl.free) => result = PerfectPlay[ctl.pos]

\* the solver has returned the score of a position it had to search, with the
\* iterative deepening and the table at work
C1_Witness ==
    /\ ctl.pc = "done"
    /\ op = "score"
    /\ stones(ctl.pos) >= 5
    /\ ~is_victory(ctl.pos)
    /\ ~can_win_in_next_move(ctl.pos)
    /\ ctl.min = ctl.max
    /\ ctl.nodes > 10
    /\ table.entries # <<>>

\* the legal columns of p whose position has the minimal perfect-play value,
\* in ascending order
BestColumns(p) ==
    LET value(m) == PerfectPlay[play_pos(p, m)]
        legal == {c \in Columns : Height(p, c) < 6}
    IN  SelectSeq(ColumnRange,
                  LAMBDA m : m \in legal /\ \A n \in legal : value(m) <= value(n))

\* C2: for a position that is not over, after best_moves the vector holds
\* exactly the legal columns whose position has the minimal score, each once
\* and in ascending order, whatever the vector contained before the call.
C2_BestMoves ==
    (op = "best_moves" /\ ~is_over(game)) => out = BestColumns(game)

\* best_moves has returned several columns into a vector that held a column
\* that is not among them
C2_Witness ==
    /\ op = "best_moves"
    /\ ~is_over(game)
    /\ Len(out) >= 2
    /\ Len(out) < Len(legal_moves(game))
    /\ \E i \in 1 .. Len(bm.before) : bm.before[i] \notin Range(out)

\* C10: a score query to the reused Solver returns the value the free
\* function score, which creates a Solver of its own, returns for the
\* position, whatever earlier queries left in the transposition table.
C10_ReusedAsFresh ==
    (op = "free_score" /\ ctl.pc = "done") => result = free_result

\* the table left behind by earlier queries has changed the search: the
\* reused solver made fewer calls of alpha_beta than the new one
C10_Witness ==
    /\ op = "free_score"
    /\ ctl.pc = "done"
    /\ query >= 2
    /\ ctl.reused_nodes > 0
    /\ ctl.reused_nodes < ctl.nodes

(***************************************************************************)
(* Claims about the iterative deepening and the arithmetic of the solver   *)
(***************************************************************************)
\* C11: for a position that is not won and has no immediate winning move, the
\* loop of score starts with min <= max, each probe uses an alpha with
\* min <= alpha < max, each probe strictly shrinks the interval [min, max] and
\* keeps min <= max, and the loop is left with min = max, which is returned;
\* the width max - min is a natural number that falls with every probe, so the
\* loop terminates.
C11_BisectionShrinks ==
    [][/\ (ctl.pc # "bisect" /\ ctl'.pc = "bisect") => ctl'.min <= ctl'.max
       /\ (ctl.pc = "bisect" /\ ctl'.pc = "probe") =>
              /\ ctl.min <= ctl'.alpha
              /\ ctl'.alpha < ctl.max
              /\ stack' = <<Frame(ctl.pos, ctl'.alpha, ctl'.alpha + 1)>>
       /\ (ctl.pc = "probe" /\ ctl'.pc = "bisect") =>
              /\ ctl.min <= ctl'.min
              /\ ctl'.min <= ctl'.max
              /\ ctl'.max <= ctl.max
              /\ ctl'.max - ctl'.min < ctl.max - ctl.min
       /\ (ctl.pc = "bisect" /\ ctl'.pc = "return") =>
              /\ ctl.min = ctl.max
              /\ ctl'.value = ctl.min]_vars

\* the loop has ended after probes that raised min and probes that lowered max
C11_Witness ==
    /\ ctl.pc = "return"
    /\ ~is_victory(ctl.pos)
    /\ ~can_win_in_next_move(ctl.pos)
    /\ ctl.min = ctl.max
    /\ ctl.value = ctl.min
    /\ initial_min(ctl.pos) < ctl.min
    /\ ctl.max < initial_max(ctl.pos)

\* the value fits an i8
InI8(v) == v \in -128 .. 127

\* the i8 values score computes for position pos before its loop, not wrapped
ScoreArithmetic(pos) ==
    {stones(pos), stones(pos) + 1, 42 - stones(pos), -(42 - stones(pos)),
     42 + 1 - stones(pos),
     (42 - stones(pos)) \div 2 + 1, (42 - (stones(pos) + 1)) \div 2 + 1}

\* the i8 values one turn of the loop of score computes, not wrapped
BisectArithmetic(min, max) ==
    {max - min, min + Div(max - min, 2), next_alpha(min, max) + 1}

\* the i8 values the call f of alpha_beta computes next, not wrapped
FrameArithmetic(f) ==
    IF f.pc = "enter"
    THEN {stones(f.game) + 2, stones(f.game) + 3, stones(f.game) + 4,
          42 - (stones(f.game) + 2), 42 - (stones(f.game) + 3), 42 - (stones(f.game) + 4),
          -score_from_num_stones(stones(f.game) + 3)}
    ELSE IF f.pc = "loop"
    THEN {-f.beta, -f.alpha}
    ELSE {-f.value}

\* C12: the score returned for a position p with at least 5 stones satisfies
\* |score(p)| <= (42 - stones(p))/2 + 1, and no i8 value computed while
\* scoring leaves -128..127: the arguments of score_from_num_stones, the
\* bounds of the loop, alpha + 1, and the negations of alpha, beta and of the
\* results of the calls.
C12_ScoreInRange ==
    /\ (ctl.pc = "done" /\ stones(ctl.pos) >= 5) =>
           /\ ctl.value <= (42 - stones(ctl.pos)) \div 2 + 1
           /\ -ctl.value <= (42 - stones(ctl.pos)) \div 2 + 1
    /\ ctl.pc # "idle" => \A v \in ScoreArithmetic(ctl.pos) : InI8(v)
    /\ (ctl.pc = "bisect" /\ ctl.min < ctl.max) =>
           \A v \in BisectArithmetic(ctl.min, ctl.max) : InI8(v)
    /\ \A i \in 1 .. Len(stack) : \A v \in FrameArithmetic(stack[i]) : InI8(v)

\* a score that is not zero has been returned after a search with calls of
\* alpha_beta below the first one
C12_Witness ==
    /\ ctl.pc = "done"
    /\ stones(ctl.pos) >= 5
    /\ ctl.value # 0
    /\ ctl.nodes > 10

(***************************************************************************)
(* lib.rs: the text representation of a board                              *)
(***************************************************************************)
\* the cell of a stone of the last mover told from the parity of the stones
\* as if it were not of the last mover
ConnectFour_cell_mut(g, row, column) ==
    LET players == <<"PlayerOne", "PlayerTwo">>
    IN  IF is_empty(g.both, row, column) THEN "Empty"
        ELSE players[(stones(g) % 2) + 1]

\* ConnectFour::cell
ConnectFour_cell(g, row, column) ==
    LET players == <<"PlayerOne", "PlayerTwo">>
    IN  IF is_empty(g.both, row, column) THEN "Empty"
        ELSE IF is_empty(g.last, row, column) THEN players[(stones(g) % 2) + 1]
        ELSE players[((stones(g) + 1) % 2) + 1]

\* the character Display writes for a cell
Display_char(field) ==
    IF field = "PlayerOne" THEN "X"
    ELSE IF field = "PlayerTwo" THEN "O"
    ELSE " "

\* one line of the board, without its end of line: "|c" for each column of the
\* row, then "|"; a line is a sequence of characters
Display_row(g, row) ==
    [i \in 1 .. 15 |->
        IF i % 2 = 1 THEN "|"
        ELSE Display_char(ConnectFour_cell(g, row, (i \div 2) - 1))]

\* Display for ConnectFour: the lines of the rows 5 down to 0, and the two
\* lines that follow them
Display_fmt(g) ==
    [rows |-> [i \in 1 .. 6 |-> Display_row(g, 6 - i)],
     footer |-> <<"---------------", " 1 2 3 4 5 6 7">>]

(***************************************************************************)
(* Claims about the text representation and about columns                  *)
(***************************************************************************)
\* the character shown for a cell
Rendered(g, row, column) == Display_fmt(g).rows[6 - row][2 * column + 2]

\* the plies, counted from 1, at which a move list puts a stone into a column,
\* from the bottom of the column upwards
PliesOf(move_list, column) ==
    SelectSeq([i \in 1 .. Len(move_list) |-> i], LAMBDA i : move_list[i] = column + 1)

\* the character the claim gives to a cell after the plays of a move list
GlyphOf(move_list, row, column) ==
    LET plies == PliesOf(move_list, column)
    IN  IF row >= Len(plies) THEN " "
        ELSE IF plies[row + 1] % 2 = 1 THEN "X"
        ELSE "O"

\* a board shows each stone by the parity of its ply and each cell without a
\* stone as a space, for the plays of every move list that leads to it
RenderedByPly(g) ==
    /\ \A row \in Rows : \A column \in Columns :
           Rendered(g, row, column) = " " <=> is_empty(g.both, row, column)
    /\ \A move_list \in MoveLists :
           (~Constructed[move_list].panic /\ g = Constructed[move_list].game) =>
               \A row \in Rows : \A column \in Columns :
                   Rendered(g, row, column) = GlyphOf(move_list, row, column)

\* C13: in every position reached by accepted plays each stone is shown as X
\* if it was placed on an odd ply and as O if it was placed on an even ply,
\* and every cell without a stone as a space: the empty board shows spaces
\* only, an accepted play shows its stone by the parity of its ply and leaves
\* every other cell as it was shown, a rejected play changes nothing, and a
\* board built from a move list shows the plies of the list.
C13_RenderedByPly ==
    /\ RenderedByPly(game)
    /\ [][/\ RenderedByPly(game')
          /\ op' = "play" =>
                 \A row \in Rows : \A column \in Columns :
                     Rendered(game', row, column) =
                         IF ret' /\ cell(row, column) = Xor(game'.both, game.both)
                         THEN (IF accepted' % 2 = 1 THEN "X" ELSE "O")
                         ELSE Rendered(game, row, column)]_vars

\* the board of the test construct_from_move_list is shown as the test expects
\* it, and a stone has been played on it
C13_Witness ==
    /\ op = "play"
    /\ ret
    /\ accepted = 14
    /\ col = 6
    /\ Display_fmt(game).rows =
           << <<"|"," ","|"," ","|"," ","|"," ","|"," ","|"," ","|"," ","|">>,
              <<"|"," ","|"," ","|"," ","|"," ","|"," ","|"," ","|"," ","|">>,
              <<"|"," ","|"," ","|"," ","|"," ","|"," ","|","O","|"," ","|">>,
              <<"|"," ","|"," ","|"," ","|","O","|","O","|","O","|"," ","|">>,
              <<"|"," ","|"," ","|","X","|","X","|","X","|","X","|"," ","|">>,
              <<"|"," ","|","O","|","X","|","X","|","X","|","O","|","O","|">> >>

(***************************************************************************)
(* lib.rs: Column.  A text is the sequence of its bytes.  The result of an *)
(* operation is Ok with a column, Err with a message, or a panic.          *)
(***************************************************************************)
Column_Ok(idx) == [kind |-> "Ok", column |-> idx]

Column_Err(message) == [kind |-> "Err", err |-> message]

Column_Panic == [kind |-> "panic"]

\* Column::from_index, with its assert!(index < 7)
Column_from_index(idx) ==
    IF idx < 7 THEN Column_Ok(idx) ELSE Column_Panic

\* <Column as FromStr>::from_str: the match looks at the first byte of the
\* text only; b'1' is 49 and b'7' is 55
Column_from_str(source) ==
    IF source # <<>> /\ source[1] \in 49 .. 55
    THEN Column_Ok(source[1] - 49)
    ELSE Column_Err("Only digits from 1 to 7 count as valid moves.")

\* longest text given to from_str
MaxInputLen == 2

\* the bytes of the texts: ' ', '-', '0', '1', '2', '7', '8', 'a'
InputBytes == {32, 45, 48, 49, 50, 55, 56, 97}

RECURSIVE Texts(_)
Texts(n) ==
    IF n = 0 THEN {<<>>}
    ELSE LET shorter == Texts(n - 1)
         IN  shorter \cup {Append(t, b) : t \in shorter, b \in InputBytes}

\* the indices a u8 can hold
Indices == 0 .. 255

InitColumn ==
    /\ game = new
    /\ accepted = 0
    /\ extra = 0
    /\ op = "new"
    /\ col = 0
    /\ ret = TRUE
    /\ table = NoTable
    /\ puts = <<>>
    /\ query = <<>>
    /\ result = [kind |-> "none"]
    /\ out = <<>>
    /\ NoSolver
    /\ book = NoBook

\* source.parse::<Column>()
Parse(source) ==
    /\ op' = "parse"
    /\ query' = source
    /\ result' = Column_from_str(source)
    /\ UNCHANGED <<game, accepted, extra, col, ret, table, puts, out>>
    /\ UNCHANGED solver_vars
    /\ UNCHANGED book

\* Column::from_index(idx)
FromIndex(idx) ==
    /\ op' = "from_index"
    /\ query' = idx
    /\ result' = Column_from_index(idx)
    /\ UNCHANGED <<game, accepted, extra, col, ret, table, puts, out>>
    /\ UNCHANGED solver_vars
    /\ UNCHANGED book

NextColumn ==
    \/ \E source \in Texts(MaxInputLen) : Parse(source)
    \/ \E idx \in Indices : FromIndex(idx)

SpecColumn == InitColumn /\ [][NextColumn]_vars

\* the texts "1" .. "7"
ColumnTexts == {<<b>> : b \in 49 .. 55}

\* C14: an invalid column is reported as an error value and never as a fatal
\* failure: parsing a text gives Ok with the index digit - 1 for "1" .. "7" and
\* an error for every other text, and from_index gives an error value, not a
\* panic, for an index of 7 or more.
C14_InvalidColumnIsError ==
    /\ op = "parse" =>
           IF query \in ColumnTexts
           THEN result.kind = "Ok" /\ result.column = query[1] - 49
           ELSE result.kind = "Err"
    /\ op = "from_index" =>
           IF query < 7
           THEN result.kind = "Ok" /\ result.column = query
           ELSE result.kind = "Err"

(***************************************************************************)
(* The opening book: precalculate/src/main.rs writes scores.dat, and       *)
(* precalculated.rs reads it.  A file is the sequence of its bytes.        *)
(***************************************************************************)
\* the number a set of bit positions stands for, for bits below 28
RECURSIVE NumberOf(_)
NumberOf(bits) ==
    IF bits = {} THEN 0
    ELSE LET b == CHOOSE c \in bits : TRUE
         IN  2 ^ b + NumberOf(bits \ {b})

\* the value of a word as the pair of its bits 28 .. 55 and its bits 0 .. 27
\* (a word of the book has no bit above 55)
Number(x) == <<NumberOf({b - 28 : b \in x \ (0 .. 27)}), NumberOf(x \cap (0 .. 27))>>

\* a < b for two such pairs
LessNumber(a, b) == a[1] < b[1] \/ (a[1] = b[1] /\ a[2] < b[2])

\* x < y for two words
Less(x, y) == LessNumber(Number(x), Number(y))

\* slice::sort_by_key: a stable sort; keys[i] is the key of v[i], as a pair
sort_by_key(v, keys) ==
    LET n == Len(v)
        place == [i \in 1 .. n |->
                     Cardinality({j \in 1 .. n :
                         \/ LessNumber(keys[j], keys[i])
                         \/ (keys[j] = keys[i] /\ j < i)}) + 1] \o <<>>
        from == [r \in 1 .. n |-> CHOOSE i \in 1 .. n : place[i] = r] \o <<>>
    IN  [r \in 1 .. n |-> v[from[r]]] \o <<>>

\* Vec::dedup without its effect
dedup_mut(v) == v

\* Vec::dedup: of consecutive equal elements only the first stays
dedup(v) ==
    LET kept == SelectSeq([i \in 1 .. Len(v) |-> i], LAMBDA i : i = 1 \/ v[i] # v[i - 1])
    IN  [r \in 1 .. Len(kept) |-> v[kept[r]]] \o <<>>

\* the boards after every legal move of the boards from .. to of v, in order
RECURSIVE next_boards(_, _, _)
next_boards(v, from, to) ==
    IF from > to THEN <<>>
    ELSE IF from = to
    THEN LET moves == legal_moves(v[from])
         IN  [i \in 1 .. Len(moves) |-> play_pos(v[from], moves[i])]
    ELSE LET mid == (from + to) \div 2
         IN  next_boards(v, from, mid) \o next_boards(v, mid + 1, to)

PRECALULATE_UP_TO_NUM_STONES == 5

\* score(board) of the generator: the value of a board with less than 5 stones
\* takes a search of nearly the whole game and is not computed here; every
\* record carries 0 in its place
early_score(board) == 0

\* one turn of the loop of main: the boards with num_stones stones, without
\* duplicates and in key order, and their records added to scores
precalculate_step(b) ==
    LET expanded == next_boards(b.unique_boards, 1, Len(b.unique_boards))
        new_boards == IF b.unique_boards = <<>> THEN Append(expanded, new) ELSE expanded
        keys == [i \in 1 .. Len(new_boards) |-> Number(encode(new_boards[i]))] \o <<>>
        unique == dedup(sort_by_key(new_boards, keys))
    IN  [b EXCEPT !.num_stones = b.num_stones + 1,
                  !.unique_boards = unique,
                  !.scores = b.scores \o
                      [i \in 1 .. Len(unique) |-> <<encode(unique[i]), early_score(unique[i])>>]]

\* u64::to_le_bytes
to_le_bytes(x) == [j \in 1 .. 8 |-> ByteValue(And(Shr(x, 8 * (j - 1)), 0 .. 7))]

\* u64::from_le_bytes
from_le_bytes(bytes) == UNION {Shl(ToBits(bytes[j]), 8 * (j - 1)) : j \in 1 .. 8}

\* the end of main: the records in key order, 8 bytes of key and 1 byte of
\* score each
precalculate_write(scores) ==
    LET sorted == sort_by_key(scores, [i \in 1 .. Len(scores) |-> Number(scores[i][1])] \o <<>>)
    IN  [k \in 1 .. 9 * Len(sorted) |->
            LET record == sorted[((k - 1) \div 9) + 1]
                j == ((k - 1) % 9) + 1
            IN  IF j <= 8 THEN to_le_bytes(record[1])[j] ELSE I8Byte(record[2])] \o <<>>

\* load_precalculated: the array PRECALCULATED of (u64, i8) read from the bytes
load_precalculated(input_bytes) ==
    LET NUM_SCORES_PRECALCULATED == Len(input_bytes) \div (8 + 1)
        length == 8 + 1
    IN  [n \in 1 .. NUM_SCORES_PRECALCULATED |->
            LET idx == n - 1
            IN  <<from_le_bytes([j \in 1 .. 8 |-> input_bytes[idx * length + j]]),
                  I8FromByte(input_bytes[idx * length + 8 + 1])>>] \o <<>>

\* slice::binary_search_by_key on an array of records, keys given as pairs:
\* <<TRUE, i>> with the index (from 1) of a record with the key, or
\* <<FALSE, i>> with the place to insert it
binary_search_by_key(array, wanted) ==
    LET RECURSIVE search(_, _)
        search(left, right) ==
            IF left >= right THEN <<FALSE, left + 1>>
            ELSE LET mid == left + (right - left) \div 2
                     found == Number(array[mid + 1][1])
                 IN  IF LessNumber(found, wanted) THEN search(mid + 1, right)
                     ELSE IF LessNumber(wanted, found) THEN search(left, mid)
                     ELSE <<TRUE, mid + 1>>
    IN  search(0, Len(array))

\* precalculated_score: panic is the failure "Must be precalculated"
precalculated_score(PRECALCULATED, board) ==
    IF stones(board) >= NUM_STONES_PRECALCULATED_UP_TO
    THEN [panic |-> FALSE, value |-> None]
    ELSE LET found == binary_search_by_key(PRECALCULATED, Number(encode(board)))
         IN  IF ~found[1] THEN [panic |-> TRUE, value |-> None]
             ELSE [panic |-> FALSE, value |-> Some(PRECALCULATED[found[2]][2])]

\* stones of the boards precalculated_score is asked about
MaxBookStones == 5

\* the boards precalculated_score is asked about next: the empty board, or the
\* board asked about last with one more stone, up to MaxBookStones stones
BookQueries(last) ==
    {board \in {new} \cup Successors({last}) : stones(board) <= MaxBookStones}

InitBook ==
    /\ game = new
    /\ accepted = 0
    /\ extra = 0
    /\ op = "new"
    /\ col = 0
    /\ ret = TRUE
    /\ table = NoTable
    /\ puts = <<>>
    /\ query = new
    /\ result = [panic |-> FALSE, value |-> None]
    /\ out = <<>>
    /\ NoSolver
    /\ book = [NoBook EXCEPT !.pc = "loop"]

\* for num_stones in 0..PRECALULATE_UP_TO_NUM_STONES
Precalculate ==
    /\ book.pc = "loop"
    /\ book.num_stones < PRECALULATE_UP_TO_NUM_STONES
    /\ book' = precalculate_step(book)
    /\ op' = "precalculate"
    /\ UNCHANGED <<game, accepted, extra, col, ret, table, puts, query, result, out>>
    /\ UNCHANGED solver_vars

\* scores.dat is written and precalculate ends
WriteScores ==
    /\ book.pc = "loop"
    /\ book.num_stones >= PRECALULATE_UP_TO_NUM_STONES
    /\ book' = [NoBook EXCEPT !.pc = "written", !.num_stones = book.num_stones,
                              !.file = precalculate_write(book.scores)]
    /\ op' = "write"
    /\ UNCHANGED <<game, accepted, extra, col, ret, table, puts, query, result, out>>
    /\ UNCHANGED solver_vars

\* the library is built with the file: static PRECALCULATED
LoadPrecalculated ==
    /\ book.pc = "written"
    /\ book' = [book EXCEPT !.pc = "loaded", !.PRECALCULATED = load_precalculated(book.file)]
    /\ op' = "load"
    /\ UNCHANGED <<game, accepted, extra, col, ret, table, puts, query, result, out>>
    /\ UNCHANGED solver_vars

\* precalculated_score(&board) is called
PrecalculatedScore(board) ==
    /\ book.pc \in {"loaded", "asked"}
    /\ book' = [book EXCEPT !.pc = "asked"]
    /\ query' = board
    /\ result' = precalculated_score(book.PRECALCULATED, board)
    /\ op' = "precalculated_score"
    /\ UNCHANGED <<game, accepted, extra, col, ret, table, puts, out>>
    /\ UNCHANGED solver_vars

NextBook ==
    \/ Precalculate
    \/ WriteScores
    \/ LoadPrecalculated
    \/ \E board \in BookQueries(query) : PrecalculatedScore(board)

SpecBook == InitBook /\ [][NextBook]_vars

(***************************************************************************)
(* Claims about the opening book                                           *)
(***************************************************************************)
\* the positions reached from the empty board in fewer than 5 plies
BookPositions == ReachableIn({new}, PRECALULATE_UP_TO_NUM_STONES - 1)

\* C15: the generator writes one record for every position reached from the
\* empty board in fewer than 5 plies and no other record, in strictly
\* ascending key order; precalculated_score then finds the record of every
\* reachable position with fewer than 5 stones, without the failure "Must be
\* precalculated", and returns None exactly for 5 or more stones.
C15_OpeningBook ==
    /\ book.pc = "written" =>
           LET records == load_precalculated(book.file)
           IN  /\ Len(book.file) = 9 * Len(records)
               /\ Len(records) = Cardinality(BookPositions)
               /\ {records[i][1] : i \in 1 .. Len(records)} = {encode(p) : p \in BookPositions}
               /\ \A i \in 1 .. (Len(records) - 1) : Less(records[i][1], records[i + 1][1])
    /\ book.pc = "asked" =>
           /\ ~result.panic
           /\ result.value = None <=> stones(query) >= 5

\* the score of a board with four stones has been found among the records of
\* all boards with up to four stones
C15_Witness ==
    /\ book.pc = "asked"
    /\ stones(query) = 4
    /\ ~result.panic
    /\ result.value # None
    /\ Len(book.PRECALCULATED) = 1 + 7 + 49 + 238 + 1120

(***************************************************************************)
(* alpha_beta called on its own: a position that is not won and cannot be  *)
(* won with the next stone, any window, and the table the calls before     *)
(* have left behind                                                        *)
(***************************************************************************)
\* calls of alpha_beta made one after the other on a table
MaxCalls == 2

\* the positions alpha_beta is called with
AlphaBetaGames == {g \in SolverGames : ~is_victory(g) /\ ~can_win_in_next_move(g)}

\* the windows (alpha, beta) alpha_beta is called with: null windows, wider
\* windows and the widest window of a position with 35 stones
AlphaBetaWindows ==
    {<<-1, 0>>, <<0, 1>>, <<1, 2>>, <<2, 3>>, <<-3, 0>>, <<-1, 2>>, <<0, 3>>, <<-4, 4>>}

InitAlphaBeta ==
    /\ game \in AlphaBetaGames
    /\ accepted = stones(game)
    /\ extra = 0
    /\ op = "new"
    /\ col = 0
    /\ ret = TRUE
    /\ table = Solver_new
    /\ puts = <<>>
    /\ query = 0
    /\ result = 0
    /\ out = <<>>
    /\ NoSolver
    /\ book = NoBook

\* alpha_beta(&game, alpha, beta, &mut table) is called
AlphaBeta(alpha, beta) ==
    /\ ctl.pc \in {"idle", "done"}
    /\ query < MaxCalls
    /\ ctl' = [NoCall EXCEPT !.pc = "call", !.pos = game, !.alpha = alpha]
    /\ stack' = <<Frame(game, alpha, beta)>>
    /\ query' = query + 1
    /\ op' = "call"
    /\ UNCHANGED <<game, accepted, extra, col, ret, table, puts, result, out,
                   bm, fresh, free_result, book>>

\* the call returns to its caller
AlphaBetaReturn ==
    /\ ctl.pc = "call"
    /\ Len(stack) = 1
    /\ Top.pc = "return"
    /\ ctl' = [ctl EXCEPT !.pc = "done", !.value = Top.value]
    /\ result' = Top.value
    /\ stack' = <<>>
    /\ op' = "alpha_beta"
    /\ UNCHANGED <<game, accepted, extra, col, ret, table, puts, query, out,
                   bm, fresh, free_result, book>>

NextAlphaBeta ==
    \/ \E window \in AlphaBetaWindows : AlphaBeta(window[1], window[2])
    \/ Enter
    \/ Descend
    \/ Store
    \/ Return
    \/ AlphaBetaReturn

SpecAlphaBeta == InitAlphaBeta /\ [][NextAlphaBeta]_vars

(***************************************************************************)
(* Claims about alpha_beta                                                 *)
(***************************************************************************)
\* every position a search from one of the games can come to
SearchPool ==
    ReachableIn(SolverGames, NumCells - MinOf({stones(g) : g \in SolverGames}))

\* the value under perfect play of the position with key k, for the keys of
\* these positions
ScoreOfKey == [k \in {encode(p) : p \in SearchPool} |-> Minimax(Decode(k))] @@ <<>>

\* the value of each of these positions under perfect play
TrueScore == [p \in SearchPool |-> ScoreOfKey[encode(p)]]

\* every entry of table T is an upper bound of the value of its position
UpperBounds(T) ==
    \A i \in DOMAIN T.entries :
        Entry_score(T.entries[i]) >= ScoreOfKey[Entry_board(T.entries[i])]

\* the value call f of alpha_beta returns, against the value of its position
AlphaBetaContract(f) ==
    LET actual == TrueScore[f.game]
    IN  /\ actual <= f.alpha0 => (actual <= f.value /\ f.value <= f.alpha0)
        /\ actual >= f.beta0 => (f.beta0 <= f.value /\ f.value <= actual)
        /\ (f.alpha0 < actual /\ actual < f.beta0) => f.value = actual

\* C16: for a position that is not won and has no immediate winning move, a
\* window alpha < beta and a table of upper bounds, alpha_beta returns v with
\* value <= v <= alpha if the value is at most alpha, beta <= v <= value if
\* the value is at least beta, and v = value otherwise.  Every call that
\* returns is checked, the outermost one and the ones below it.
C16_AlphaBetaContract ==
    \A i \in 1 .. Len(stack) :
        (stack[i].pc = "return" /\ stack[i].alpha0 < stack[i].beta0 /\ UpperBounds(table)) =>
            AlphaBetaContract(stack[i])

\* a call with a window wider than one has returned the value of its
\* position, found inside the window, on a table with entries of calls before
C16_Witness ==
    /\ Len(stack) = 1
    /\ Top.pc = "return"
    /\ Top.beta0 > Top.alpha0 + 1
    /\ Top.alpha0 < TrueScore[Top.game]
    /\ TrueScore[Top.game] < Top.beta0
    /\ Top.value = TrueScore[Top.game]
    /\ query = 2
    /\ table.entries # <<>>
    /\ UpperBounds(table)
    /\ ctl.nodes > 5

\* C17: after any sequence of score and best_moves calls, and at every step
\* of them, each occupied slot of the transposition table holds a key k and a
\* score s with s >= the perfect-play value of the position with key k: the
\* table holds upper bounds only.  The same holds for the table of the solver
\* the free function score creates.
C17_TableHoldsUpperBounds ==
    /\ UpperBounds(table)
    /\ UpperBounds(fresh)

\* after a score call and a best_moves call the table holds several entries,
\* one that is the value of its position and one that lies above it
C17_Witness ==
    /\ Idle
    /\ query = 2
    /\ op = "best_moves"
    /\ Cardinality(DOMAIN table.entries) >= 3
    /\ \E i \in DOMAIN table.entries :
           Entry_score(table.entries[i]) = ScoreOfKey[Entry_board(table.entries[i])]
    /\ \E i \in DOMAIN table.entries :
           Entry_score(table.entries[i]) > ScoreOfKey[Entry_board(table.entries[i])]

\* C18: every call of alpha_beta made while a position is scored, the call of
\* the iterative deepening as well as every call for a child, has alpha < beta
\* and a position that is not won and in which the player to move cannot
\* complete four in a row with the next stone, so the debug assertions at the
\* top of alpha_beta and in non_loosing_moves_impl hold.
C18_AlphaBetaPreconditions ==
    (stack # <<>> /\ Top.pc = "enter") =>
        /\ Top.alpha0 < Top.beta0
        /\ ~is_victory(Top.game)
        /\ ~can_win_in_next_move(Top.game)

\* alpha_beta has been called for the child of a child, with its assertions
\* still to run
C18_Witness ==
    /\ Len(stack) >= 3
    /\ Top.pc = "enter"
    /\ ctl.pc = "probe"
    /\ Top.alpha0 < Top.beta0
    /\ ~is_victory(Top.game)
    /\ ~can_win_in_next_move(Top.game)

\* the calls of alpha_beta that return from a null window
NullWindowReturns ==
    {i \in 1 .. Len(stack) : stack[i].pc = "return" /\ stack[i].beta0 = stack[i].alpha0 + 1}

\* C19 as stated: a call alpha_beta(p, alpha, alpha + 1, T) returns a value
\* that is <= alpha or >= alpha + 1, and returns exactly alpha + 1 whenever
\* the value of p is >= alpha + 1.
C19_NullWindowReturnsBeta ==
    \A i \in NullWindowReturns :
        /\ stack[i].value <= stack[i].alpha0 \/ stack[i].value >= stack[i].alpha0 + 1
        /\ TrueScore[stack[i].game] >= stack[i].alpha0 + 1 =>
               stack[i].value = stack[i].alpha0 + 1

\* C19, amended: a call alpha_beta(p, alpha, alpha + 1, T) returns v with
\* alpha + 1 <= v <= value of p whenever the value of p is >= alpha + 1, and
\* with value of p <= v <= alpha whenever the value of p is <= alpha; v tells
\* on which side of the window the value lies but need not be alpha + 1.
C19_NullWindowSide ==
    \A i \in NullWindowReturns :
        /\ TrueScore[stack[i].game] >= stack[i].alpha0 + 1 =>
               /\ stack[i].alpha0 + 1 <= stack[i].value
               /\ stack[i].value <= TrueScore[stack[i].game]
        /\ TrueScore[stack[i].game] <= stack[i].alpha0 =>
               /\ TrueScore[stack[i].game] <= stack[i].value
               /\ stack[i].value <= stack[i].alpha0

\* the call of the iterative deepening has returned more than alpha + 1
C19_Witness ==
    /\ ctl.pc = "probe"
    /\ Len(stack) = 1
    /\ Top.pc = "return"
    /\ Top.beta0 = Top.alpha0 + 1
    /\ Top.value > Top.alpha0 + 1
    /\ Top.value <= TrueScore[Top.game]

\* the place of column c in an order of the columns
PlaceIn(order, c) == CHOOSE k \in 1 .. Len(order) : order[k] = c

\* position a of a sequence of (column, heuristic, position) comes before
\* position b by descending heuristic and, for equal heuristic, by the order
\* of the columns
Before(order, a, b) ==
    \/ a[2] > b[2]
    \/ (a[2] = b[2] /\ PlaceIn(order, a[1]) < PlaceIn(order, b[1]))

\* the call of alpha_beta that runs, when it is in its loop, holds the
\* positions after its non loosing moves, each with its heuristic value; every
\* call in its loop, running or waiting, has its positions by descending
\* heuristic and then by the order of the columns, and the call it waits for
\* is the one for the position whose turn it is
ExploredInOrder(order) ==
    /\ (stack # <<>> /\ Top.pc = "loop") =>
           LET f == Top
               ps == f.positions
           IN  /\ {ps[k][1] : k \in 1 .. Len(ps)} =
                      {c \in Columns :
                          NonLoosingMoves_contains(non_loosing_moves_impl(f.game), c)}
               /\ \A k \in 1 .. Len(ps) :
                      /\ ps[k][3] = play_pos(f.game, ps[k][1])
                      /\ ps[k][2] = heuristic(ps[k][3])
    /\ \A n \in 1 .. Len(stack) :
           stack[n].pc = "loop" =>
               LET f == stack[n]
                   ps == f.positions
               IN  /\ \A a \in 1 .. Len(ps) : \A b \in (a + 1) .. Len(ps) :
                          Before(order, ps[a], ps[b])
                   /\ n < Len(stack) => stack[n + 1].game = ps[f.i][3]

\* C20 as stated: inside alpha_beta the children of a position are explored
\* by descending heuristic value, and children of equal heuristic value in
\* the column order 3, 2, 4, 1, 5, 0, 6.
C20_LeftBeforeRight == ExploredInOrder(<<3, 2, 4, 1, 5, 0, 6>>)

\* C20, amended: inside alpha_beta the children of a position are explored by
\* descending heuristic value, and children of equal heuristic value in the
\* column order 3, 4, 2, 5, 1, 6, 0: the centre first, then outwards, the
\* column to the right before the column to the left.
C20_RightBeforeLeft == ExploredInOrder(<<3, 4, 2, 5, 1, 6, 0>>)

\* a call is in its loop with two positions of equal heuristic value, one to
\* the right and one to the left of the centre at the same distance, and has
\* gone on to a second position
C20_Witness ==
    /\ stack # <<>>
    /\ Top.pc = "loop"
    /\ Top.i >= 2
    /\ \E a \in 1 .. Len(Top.positions) : \E b \in (a + 1) .. Len(Top.positions) :
           /\ Top.positions[a][2] = Top.positions[b][2]
           /\ Top.positions[a][1] > 3
           /\ Top.positions[b][1] = 6 - Top.positions[a][1]

====
